---------------------------- MODULE Spec2Model ----------------------------
(***************************************************************************)
(* Model of the semantic retrieval pipeline of pinecone_utils.py:          *)
(*   buscar_documentos        (search)                                      *)
(*   listar_todos_documentos  (listAll)                                     *)
(*   inicializar_pinecone     (connect)                                     *)
(* The embedding service and the vector store are external: every answer   *)
(* they can give (a failure, a malformed response, a list of matches) is a  *)
(* nondeterministic choice of the step that contacts them.                  *)
(*                                                                         *)
(* Query texts are sequences of one-character strings, so that strip,      *)
(* slicing, lower() and the substring test are computed character by       *)
(* character.  Metadata values (file name, text) are never inspected       *)
(* beyond their truthiness and are plain strings.                           *)
(***************************************************************************)
EXTENDS Integers, Sequences, FiniteSets

VARIABLES
    config,            \* module globals PINECONE_API_KEY / PINECONE_HOST
    pc,                \* position of the running call
    query,             \* argument `query` of buscar_documentos
    top_k,             \* argument `top_k` / `limit`
    query_processada,  \* local of buscar_documentos
    query_embedding,   \* local of buscar_documentos
    resultados,        \* response of index.query
    total,             \* local `total` of listar_todos_documentos
    calls,             \* requests sent to the external services, in order
    outcome,           \* how the call ended: value returned or exception
    http               \* POST /ask in progress and the response it sends

vars == << config, pc, query, top_k, query_processada, query_embedding,
           resultados, total, calls, outcome, http >>

----------------------------------------------------------------------------
(* Bounds of the model *)

MaxPad == 1000         \* longest filler inside an input query
MaxMatches == 2        \* longest raw-match list the vector store returns
MaxTotal == 2          \* largest total_vector_count the statistics report
MaxLimitDelta == 1     \* limits tried around the API ceiling

(* Program constants *)

MAX_QUERY_LEN == 1000  \* pinecone_utils.py:126
DEFAULT_TOP_K == 5     \* pinecone_utils.py:108
DEFAULT_MAX_RESULTS == 50  \* llm_router.py:24
EMBED_DIM == 768       \* pinecone_utils.py:259
API_TOP_K_MAX == 10000 \* pinecone_utils.py:264

----------------------------------------------------------------------------
(* Python string primitives *)

WHITESPACE == {" ", "\t", "\n", "\r"}

UPPER == <<"A", "B", "C", "D", "E", "F", "G", "H", "I", "J", "K", "L", "M",
           "N", "O", "P", "Q", "R", "S", "T", "U", "V", "W", "X", "Y", "Z",
           "Ç", "Ã", "Á", "É", "Í", "Ó", "Ú">>

LOWER == <<"a", "b", "c", "d", "e", "f", "g", "h", "i", "j", "k", "l", "m",
           "n", "o", "p", "q", "r", "s", "t", "u", "v", "w", "x", "y", "z",
           "ç", "ã", "á", "é", "í", "ó", "ú">>

LowerChar(c) ==
    IF \E i \in 1..Len(UPPER) : UPPER[i] = c
    THEN LOWER[CHOOSE i \in 1..Len(UPPER) : UPPER[i] = c]
    ELSE c

\* str.lower()
Lower(s) == [i \in 1..Len(s) |-> LowerChar(s[i])]

RECURSIVE FirstNonWs(_, _)
FirstNonWs(s, i) ==
    IF i > Len(s) THEN i
    ELSE IF s[i] \in WHITESPACE THEN FirstNonWs(s, i + 1) ELSE i

RECURSIVE LastNonWs(_, _)
LastNonWs(s, i) ==
    IF i < 1 THEN i
    ELSE IF s[i] \in WHITESPACE THEN LastNonWs(s, i - 1) ELSE i

\* str.strip()
Strip(s) == SubSeq(s, FirstNonWs(s, 1), LastNonWs(s, Len(s)))

\* s[:n]
Take(s, n) == SubSeq(s, 1, IF Len(s) < n THEN Len(s) ELSE n)

\* `t in s` for strings
Contains(s, t) ==
    \E i \in 1..(Len(s) - Len(t) + 1) :
        \A j \in 1..Len(t) : s[i + j - 1] = t[j]

IsPrefix(p, s) == Len(p) <= Len(s) /\ \A i \in 1..Len(p) : s[i] = p[i]

\* variant: only `not query`, whitespace is let through
IsBlank_SemStrip(q) == Len(q) = 0

\* `not query or not query.strip()`
IsBlank(q) == Len(q) = 0 \/ Len(Strip(q)) = 0

----------------------------------------------------------------------------
(* Query truncation and enrichment, buscar_documentos lines 125-140 *)

MONETARY_TERMS ==
    { <<"v", "a", "l", "o", "r">>,
      <<"p", "r", "e", "ç", "o">>,
      <<"c", "u", "s", "t", "o">>,
      <<"a", "l", "u", "g", "u", "e", "l">>,
      <<"t", "a", "x", "a">>,
      <<"m", "u", "l", "t", "a">>,
      <<"r", "e", "a", "i", "s">>,
      <<"r", "$">>,
      <<"p", "a", "g", "a", "m", "e", "n", "t", "o">> }

PERSON_NAMES ==
    { <<"e", "d", "u", "a", "r", "d", "o">>,
      <<"r", "o", "c", "h", "a">>,
      <<"f", "o", "n", "t", "e", "n", "e", "l", "e">>,
      <<"g", "a", "b", "r", "i", "e", "l", "a">>,
      <<"b", "r", "u", "n", "o">>,
      <<"a", "n", "a">> }

\* " valor aluguel preço pagamento R$"
MONETARY_SUFFIX ==
    <<" ", "v", "a", "l", "o", "r", " ", "a", "l", "u", "g", "u">>
    \o <<"e", "l", " ", "p", "r", "e", "ç", "o", " ", "p", "a", "g">>
    \o <<"a", "m", "e", "n", "t", "o", " ", "R", "$">>

\* " nome cpf rg identificação contratante locatário inquilino"
PERSON_SUFFIX ==
    <<" ", "n", "o", "m", "e", " ", "c", "p", "f", " ", "r", "g">>
    \o <<" ", "i", "d", "e", "n", "t", "i", "f", "i", "c", "a", "ç">>
    \o <<"ã", "o", " ", "c", "o", "n", "t", "r", "a", "t", "a", "n">>
    \o <<"t", "e", " ", "l", "o", "c", "a", "t", "á", "r", "i", "o">>
    \o <<" ", "i", "n", "q", "u", "i", "l", "i", "n", "o">>

\* variant: the slice is taken before the strip
TruncarConsulta_AntesDoStrip(q) == Strip(Take(q, MAX_QUERY_LEN))

\* lines 125-127: strip, then keep the first 1000 characters
TruncarConsulta(q) ==
    LET s == Strip(q)
    IN  IF Len(s) > MAX_QUERY_LEN THEN Take(s, MAX_QUERY_LEN) ELSE s

\* line 131
consulta_sobre_valor(qp) ==
    LET low == Lower(qp) IN \E termo \in MONETARY_TERMS : Contains(low, termo)

\* line 132
consulta_sobre_pessoa(qp) ==
    LET low == Lower(qp) IN \E nome \in PERSON_NAMES : Contains(low, nome)

\* variant: the person branch is tested first
EnriquecerConsulta_PessoaPrimeiro(qp) ==
    IF consulta_sobre_pessoa(qp) THEN qp \o PERSON_SUFFIX
    ELSE IF consulta_sobre_valor(qp) THEN qp \o MONETARY_SUFFIX
    ELSE qp

\* lines 135-140
EnriquecerConsulta(qp) ==
    IF consulta_sobre_valor(qp) THEN qp \o MONETARY_SUFFIX
    ELSE IF consulta_sobre_pessoa(qp) THEN qp \o PERSON_SUFFIX
    ELSE qp

----------------------------------------------------------------------------
(* Input queries: optional surrounding whitespace, a head fragment, a filler *)
(* of n characters and a tail fragment.  The fillers put the tail fragment   *)
(* before, across and after character 1000.                                  *)

Pad(n) == [i \in 1..n |-> "z"]

WRAPS == { << <<>>, <<>> >>, << <<" ">>, <<"\n", " ">> >> }

HEADS == { <<>>, <<"A", "n", "a">>, <<"V", "A", "L", "O", "R">> }

TAILS == { <<>>, <<"v", "a", "l", "o", "r">>, <<"b", "r", "u", "n", "o">>,
           <<"R", "$">> }

PadLens == { 0, MaxPad - 5, MaxPad - 4 }

Queries ==
    { w[1] \o h \o Pad(n) \o t \o w[2] :
        w \in WRAPS, h \in HEADS, n \in PadLens, t \in TAILS }

TopKs == { 1, DEFAULT_TOP_K }

ListLimits ==
    { 0, 50 } \cup
    ((API_TOP_K_MAX - MaxLimitDelta)..(API_TOP_K_MAX + MaxLimitDelta))

----------------------------------------------------------------------------
(* Raw matches of the vector store.  meta_kind: "dict" (metadata is a      *)
(* mapping, held in `metadata`), "none" (metadata is None) or "missing"    *)
(* (no metadata attribute).  score_kind: "num", "none" (score is None, so  *)
(* float() raises) or "missing" (no score attribute).                      *)

EmptyDict == [k \in {} |-> ""]

MatchPool ==
    { [id |-> "d1", score_kind |-> "num", score |-> 90, meta_kind |-> "dict",
       metadata |-> [arquivo |-> "a.pdf", texto |-> "Clausula 1",
                     secao |-> "1"]],
      [id |-> "d2", score_kind |-> "num", score |-> 80, meta_kind |-> "dict",
       metadata |-> [arquivo |-> "b.pdf", texto |-> "Aluguel R$ 1500",
                     valores_monetarios |-> <<"R$ 1500">>]],
      [id |-> "d3", score_kind |-> "num", score |-> 70, meta_kind |-> "none",
       metadata |-> EmptyDict],
      [id |-> "d4", score_kind |-> "num", score |-> 60, meta_kind |-> "dict",
       metadata |-> EmptyDict],
      [id |-> "d5", score_kind |-> "num", score |-> 50, meta_kind |-> "dict",
       metadata |-> [arquivo |-> "", texto |-> "Clausula 5"]],
      [id |-> "d6", score_kind |-> "num", score |-> 40, meta_kind |-> "dict",
       metadata |-> [arquivo |-> "c.pdf"]],
      [id |-> "d7", score_kind |-> "none", score |-> 0, meta_kind |-> "dict",
       metadata |-> [arquivo |-> "d.pdf", texto |-> "Clausula 7"]],
      [id |-> "d8", score_kind |-> "missing", score |-> 0,
       meta_kind |-> "dict",
       metadata |-> [arquivo |-> "e.pdf", texto |-> "Clausula 8",
                     nomes |-> <<"Ana">>]] }

\* lists of distinct matches no longer than n
MatchLists(n) ==
    UNION { { s \in [1..len -> MatchPool] :
                \A i, j \in 1..len : i # j => s[i].id # s[j].id } :
            len \in 0..n }

Min2(a, b) == IF a < b THEN a ELSE b

\* what index.query can answer to a request for k neighbours
QueryResponses(k) ==
    { [kind |-> x, matches |-> <<>>] :
        x \in {"raise", "none", "no_matches_attr", "not_iterable"} }
    \cup
    { [kind |-> "matches", matches |-> s] :
        s \in MatchLists(IF k < 0 THEN 0 ELSE Min2(k, MaxMatches)) }

\* dict.get(k, default)
Get(d, k, default) == IF k \in DOMAIN d THEN d[k] ELSE default

----------------------------------------------------------------------------
(* Result formatting of buscar_documentos, lines 181-222 *)

\* line 185: `not hasattr(match, 'metadata') or not match.metadata`
SemMetadados(m) == m.meta_kind # "dict" \/ DOMAIN m.metadata = {}

\* line 192: float(match.score) raises on a score that is None
ScoreFalha(m) == m.score_kind = "none"

\* lines 199-209: an entity list, [] when absent or falsy
CampoExtra(m, campo) ==
    IF campo \in DOMAIN m.metadata /\ m.metadata[campo] # <<>>
    THEN m.metadata[campo] ELSE <<>>

\* lines 190-209
MontarDoc(m) ==
    [ id       |-> m.id,
      score    |-> IF m.score_kind = "num" THEN m.score ELSE 0,
      arquivo  |-> Get(m.metadata, "arquivo", ""),
      texto    |-> Get(m.metadata, "texto", ""),
      secao    |-> Get(m.metadata, "secao", ""),
      valores_monetarios |-> CampoExtra(m, "valores_monetarios"),
      cpfs     |-> CampoExtra(m, "cpfs"),
      nomes    |-> CampoExtra(m, "nomes") ]

\* variant: only the file name is required
CamposIncompletos_SoArquivo(doc) == doc.arquivo = ""

\* line 212: `not doc["arquivo"] or not doc["texto"]`
CamposIncompletos(doc) == doc.arquivo = "" \/ doc.texto = ""

\* one turn of the loop, lines 183-219: what it appends to documentos
ProcessarMatch(m) ==
    IF SemMetadados(m) THEN <<>>
    ELSE IF ScoreFalha(m) THEN <<>>
    ELSE IF CamposIncompletos(MontarDoc(m)) THEN <<>>
    ELSE << MontarDoc(m) >>

\* variant: the new record is put in front
Anexar_NaFrente(documentos, novos) == novos \o documentos

\* documentos.append(doc), line 216
Anexar(documentos, novos) == documentos \o novos

\* the loop of lines 181-219
RECURSIVE FormatarResultados(_, _, _)
FormatarResultados(matches, i, documentos) ==
    IF i > Len(matches) THEN documentos
    ELSE FormatarResultados(matches, i + 1,
                            Anexar(documentos, ProcessarMatch(matches[i])))

----------------------------------------------------------------------------
(* Listing of listar_todos_documentos, lines 268-276 *)

\* match.metadata.get raises when metadata is None or absent
ListarFalha(m) == m.meta_kind # "dict"

\* lines 270-274
ListarDoc(m) ==
    [ id      |-> m.id,
      arquivo |-> Get(m.metadata, "arquivo", ""),
      texto   |-> Get(m.metadata, "texto", "") ]

\* lines 268-274, when no match raises
ListarDocumentos(matches) == [i \in 1..Len(matches) |-> ListarDoc(matches[i])]

\* line 259
DummyVector == [i \in 1..EMBED_DIM |-> 0]

\* variant: the limit is passed on without the ceiling
ListarTopK_SemTeto(limit) == limit

\* line 264
ListarTopK(limit) == Min2(limit, API_TOP_K_MAX)

----------------------------------------------------------------------------
(* Requests to the external services *)

Call(svc) ==
    [ svc |-> svc, task_type |-> "", content |-> <<>>, vector |-> <<>>,
      top_k |-> 0, include_metadata |-> FALSE ]

\* variant: the indexing purpose of gerar_embedding is used for the query
EmbedCall_Document(texto) ==
    [ Call("embed") EXCEPT !.task_type = "RETRIEVAL_DOCUMENT",
                           !.content = texto ]

\* genai.embed_content(model, content=[texto], task_type), lines 145-149
EmbedCall(texto) ==
    [ Call("embed") EXCEPT !.task_type = "RETRIEVAL_QUERY",
                           !.content = texto ]

\* index.query(vector, top_k, include_metadata=True), lines 166-170, 262-266
QueryCall(v, k) ==
    [ Call("query") EXCEPT !.vector = v, !.top_k = k,
                           !.include_metadata = TRUE ]

\* what genai.embed_content(...)['embedding'][0] can yield: an API failure,
\* a response without the expected shape, or a vector
EmbedResponses ==
    { [kind |-> "raise", vector |-> <<>>],
      [kind |-> "malformed", vector |-> <<>>],
      [kind |-> "ok", vector |-> [i \in 1..EMBED_DIM |-> 1]] }

\* inicializar_pinecone, lines 25-48: the requests it sends and whether it
\* returns the index (ok) or raises
InicializarPinecone(cfg) ==
    IF ~cfg.api_key \/ ~cfg.host
    THEN { [ok |-> FALSE, calls |-> <<>>] }
    ELSE { [ok |-> FALSE, calls |-> << Call("connect") >>],
           [ok |-> FALSE,
            calls |-> << Call("connect"), Call("describe_index_stats") >>],
           [ok |-> TRUE,
            calls |-> << Call("connect"), Call("describe_index_stats") >>] }

----------------------------------------------------------------------------
(* How a call ends *)

Running(op) ==
    [ op |-> op, kind |-> "running", exc |-> "", msg |-> "",
      docs |-> <<>>, total |-> 0 ]

NoOutcome == Running("none")

Return(op, docs, n) ==
    [ op |-> op, kind |-> "return", exc |-> "", msg |-> "",
      docs |-> docs, total |-> n ]

Raise(op, exc, msg) ==
    [ op |-> op, kind |-> "raise", exc |-> exc, msg |-> msg,
      docs |-> <<>>, total |-> 0 ]

\* line 152
ErroEmbedding == Raise("buscar", "ValueError", "embedding")

\* line 161
ErroConexao == Raise("buscar", "ConnectionError", "conexao")

\* line 178
ErroBusca == Raise("buscar", "ValueError", "busca")

\* variant: the unexpected exception reaches the caller
ErroInesperado_Propagado == Raise("buscar", "TypeError", "inesperado")

\* lines 230-232: any other exception is swallowed
ErroInesperado == Return("buscar", <<>>, 0)

NoResponse == [kind |-> "unset", matches |-> <<>>]

Configs ==
    { [api_key |-> TRUE, host |-> TRUE],
      [api_key |-> FALSE, host |-> TRUE],
      [api_key |-> TRUE, host |-> FALSE] }

----------------------------------------------------------------------------
(* The answering layer, llm_router.py ask_question *)

\* what POST /ask sends back: status_code 0 while the handler runs
HttpResponse(code, detail) ==
    [ op |-> "ask", status_code |-> code, detail |-> detail ]

NoHttp == [ op |-> "none", status_code |-> 0, detail |-> "" ]

NoException == [ kind |-> "none", status_code |-> 0, detail |-> "" ]

\* HTTPException(status_code, detail)
HTTPException(code, detail) ==
    [ kind |-> "HTTPException", status_code |-> code, detail |-> detail ]

\* an exception raised by buscar_documentos
ExcecaoDaBusca(o) == [ kind |-> o.exc, status_code |-> 0, detail |-> o.msg ]

\* lines 49-54: what the body of the inner try raises
TentarBusca(o) ==
    IF o.kind = "raise" THEN ExcecaoDaBusca(o)
    ELSE IF Len(o.docs) = 0
         THEN HTTPException(404, "Nenhum documento relevante encontrado.")
         ELSE NoException

\* lines 57-59: `except Exception` catches every exception of the inner
\* try, an HTTPException included, and raises a 500
ExceptBusca(e) == HTTPException(500, "Erro ao processar a consulta de busca")

\* lines 136-141: an HTTPException is passed on, anything else becomes 500
ExceptExterno(e) ==
    IF e.kind = "HTTPException" THEN e
    ELSE HTTPException(500, "Erro ao processar pergunta")

\* what gemini_model.generate_content can give: a text, parts, a blocked or
\* empty response, or a failure
LlmResponses == { "text", "parts", "blocked", "empty", "raise" }

AskMaxResults == { DEFAULT_MAX_RESULTS }

----------------------------------------------------------------------------
(* State machine *)

Init ==
    /\ config \in Configs
    /\ pc = "idle"
    /\ query = <<>>
    /\ top_k = 0
    /\ query_processada = <<>>
    /\ query_embedding = <<>>
    /\ resultados = NoResponse
    /\ total = 0
    /\ calls = <<>>
    /\ outcome = NoOutcome
    /\ http = NoHttp

\* buscar_documentos(q, k), lines 119-140: blank check, strip, truncate,
\* enrich
BuscarChamada(q, k) ==
    /\ query' = q
    /\ top_k' = k
    /\ IF IsBlank(q)
       THEN /\ query_processada' = <<>>
            /\ outcome' = Return("buscar", <<>>, 0)
            /\ pc' = "done"
       ELSE /\ query_processada' = EnriquecerConsulta(TruncarConsulta(q))
            /\ outcome' = Running("buscar")
            /\ pc' = "b_embed"
    /\ UNCHANGED << config, query_embedding, resultados, total, calls >>

\* a direct call of buscar_documentos
BuscarInicio ==
    /\ pc = "idle"
    /\ \E q \in Queries, k \in TopKs : BuscarChamada(q, k)
    /\ UNCHANGED http

\* lines 143-152: embed the query
BuscarEmbedding ==
    /\ pc = "b_embed"
    /\ calls' = Append(calls, EmbedCall(query_processada))
    /\ \E r \in EmbedResponses :
        IF r.kind = "ok"
        THEN /\ query_embedding' = r.vector
             /\ pc' = "b_connect"
             /\ UNCHANGED outcome
        ELSE /\ outcome' = ErroEmbedding
             /\ pc' = "done"
             /\ UNCHANGED query_embedding
    /\ UNCHANGED << http, config, query, top_k, query_processada, resultados, total >>

\* lines 155-161: connect to the index
BuscarConexao ==
    /\ pc = "b_connect"
    /\ \E r \in InicializarPinecone(config) :
        /\ calls' = calls \o r.calls
        /\ IF r.ok
           THEN pc' = "b_query" /\ UNCHANGED outcome
           ELSE pc' = "done" /\ outcome' = ErroConexao
    /\ UNCHANGED << http, config, query, top_k, query_processada, query_embedding,
                    resultados, total >>

\* lines 164-232: query the index, format the matches, return
BuscarConsulta ==
    /\ pc = "b_query"
    /\ calls' = Append(calls, QueryCall(query_embedding, top_k))
    /\ \E r \in QueryResponses(top_k) :
        /\ resultados' = r
        /\ outcome' =
             CASE r.kind = "raise" -> ErroBusca
               [] r.kind \in {"none", "no_matches_attr"} ->
                    Return("buscar", <<>>, 0)
               [] r.kind = "not_iterable" ->
                    \* TypeError at line 182, handled at lines 230-232
                    ErroInesperado
               [] r.kind = "matches" ->
                    IF r.matches = <<>>
                    THEN Return("buscar", <<>>, 0)
                    ELSE Return("buscar",
                                FormatarResultados(r.matches, 1, <<>>), 0)
    /\ pc' = "done"
    /\ UNCHANGED << http, config, query, top_k, query_processada, query_embedding,
                    total >>

\* listar_todos_documentos, line 234: called with a limit
ListarInicio ==
    /\ pc = "idle"
    /\ \E limit \in ListLimits : top_k' = limit
    /\ outcome' = Running("listar")
    /\ pc' = "l_connect"
    /\ UNCHANGED << http, config, query, query_processada, query_embedding,
                    resultados, total, calls >>

\* line 246 and lines 281-283
ListarConexao ==
    /\ pc = "l_connect"
    /\ \E r \in InicializarPinecone(config) :
        /\ calls' = calls \o r.calls
        /\ IF r.ok
           THEN pc' = "l_stats" /\ UNCHANGED outcome
           ELSE pc' = "done" /\ outcome' = Return("listar", <<>>, 0)
    /\ UNCHANGED << http, config, query, top_k, query_processada, query_embedding,
                    resultados, total >>

\* lines 249-253: statistics; -1 stands for a failing request, MaxTotal + 1
\* for an answer without total_vector_count
ListarEstatisticas ==
    /\ pc = "l_stats"
    /\ calls' = Append(calls, Call("describe_index_stats"))
    /\ \E n \in -1..(MaxTotal + 1) :
        LET t == IF n = MaxTotal + 1 THEN 0 ELSE n
        IN  IF n = -1
            THEN /\ pc' = "done"
                 /\ outcome' = Return("listar", <<>>, 0)
                 /\ UNCHANGED total
            ELSE /\ total' = t
                 /\ IF t = 0
                    THEN pc' = "done" /\ outcome' = Return("listar", <<>>, 0)
                    ELSE pc' = "l_query" /\ UNCHANGED outcome
    /\ UNCHANGED << http, config, query, top_k, query_processada, query_embedding,
                    resultados >>

\* lines 257-280: the all-zero query and the listing
ListarConsulta ==
    /\ pc = "l_query"
    /\ calls' = Append(calls, QueryCall(DummyVector, ListarTopK(top_k)))
    /\ \E r \in QueryResponses(ListarTopK(top_k)) :
        /\ resultados' = r
        /\ outcome' =
             IF r.kind = "matches" /\ \A i \in 1..Len(r.matches) :
                                          ~ListarFalha(r.matches[i])
             THEN Return("listar", ListarDocumentos(r.matches), total)
             ELSE Return("listar", <<>>, total)
    /\ pc' = "done"
    /\ UNCHANGED << http, config, query, top_k, query_processada, query_embedding,
                    total >>

\* the caller takes the result; the next call starts from fresh locals
Retorno ==
    /\ \/ pc = "done" /\ http.op = "none"
       \/ pc = "a_done"
    /\ http' = NoHttp
    /\ pc' = "idle"
    /\ query' = <<>>
    /\ top_k' = 0
    /\ query_processada' = <<>>
    /\ query_embedding' = <<>>
    /\ resultados' = NoResponse
    /\ total' = 0
    /\ calls' = <<>>
    /\ outcome' = NoOutcome
    /\ UNCHANGED config

Next ==
    \/ BuscarInicio
    \/ BuscarEmbedding
    \/ BuscarConexao
    \/ BuscarConsulta
    \/ ListarInicio
    \/ ListarConexao
    \/ ListarEstatisticas
    \/ ListarConsulta
    \/ Retorno

Spec == Init /\ [][Next]_vars

\* ask_question, lines 35-49: blank check, then the call of
\* buscar_documentos(request.question, request.max_results)
AskInicio ==
    /\ pc = "idle"
    /\ \E q \in Queries, k \in AskMaxResults :
        IF IsBlank(q)
        THEN /\ query' = q
             /\ top_k' = k
             /\ pc' = "a_done"
             /\ http' = LET e == ExceptExterno(HTTPException(400,
                                     "A pergunta não pode estar vazia"))
                        IN  HttpResponse(e.status_code, e.detail)
             /\ UNCHANGED << config, query_processada, query_embedding,
                             resultados, total, calls, outcome >>
        ELSE /\ BuscarChamada(q, k)
             /\ http' = HttpResponse(0, "")

\* lines 49-59: the result of the search inside the inner try
AskBusca ==
    /\ pc = "done"
    /\ http.op = "ask"
    /\ LET e == TentarBusca(outcome)
       IN  IF e.kind = "none"
           THEN pc' = "a_llm" /\ UNCHANGED http
           ELSE /\ pc' = "a_done"
                /\ http' = LET x == ExceptExterno(ExceptBusca(e))
                           IN  HttpResponse(x.status_code, x.detail)
    /\ UNCHANGED << config, query, top_k, query_processada, query_embedding,
                    resultados, total, calls, outcome >>

\* lines 61-134: prompt, generation, response
AskGeracao ==
    /\ pc = "a_llm"
    /\ \E r \in LlmResponses :
        http' = IF r = "raise"
                THEN LET x == ExceptExterno(HTTPException(500,
                         "Ocorreu um erro interno ao gerar a resposta com o modelo."))
                     IN  HttpResponse(x.status_code, x.detail)
                ELSE HttpResponse(200, r)
    /\ pc' = "a_done"
    /\ UNCHANGED << config, query, top_k, query_processada, query_embedding,
                    resultados, total, calls, outcome >>

NextAsk ==
    \/ AskInicio
    \/ BuscarEmbedding
    \/ BuscarConexao
    \/ BuscarConsulta
    \/ AskBusca
    \/ AskGeracao
    \/ Retorno

SpecAsk == Init /\ [][NextAsk]_vars

----------------------------------------------------------------------------
(* Properties *)

Buscando == outcome.op = "buscar"

Listando == outcome.op = "listar"

Terminou(op) == pc = "done" /\ outcome.op = op

SoEspacos(q) == \A i \in 1..Len(q) : q[i] \in WHITESPACE

Servicos == [i \in 1..Len(calls) |-> calls[i].svc]

TemMonetario(s) ==
    \E t \in MONETARY_TERMS :
        \E i \in 1..(Len(s) - Len(t) + 1) : SubSeq(s, i, i + Len(t) - 1) = t

TemPessoa(s) ==
    \E t \in PERSON_NAMES :
        \E i \in 1..(Len(s) - Len(t) + 1) : SubSeq(s, i, i + Len(t) - 1) = t

\* the text with the suffix its category calls for: monetary first, then
\* person, else none
ComSufixo(base) ==
    LET low == Lower(base)
    IN  IF TemMonetario(low) THEN base \o MONETARY_SUFFIX
        ELSE IF TemPessoa(low) THEN base \o PERSON_SUFFIX
        ELSE base

\* C1: a search whose query is empty or only whitespace returns an empty
\* sequence, raises nothing, and sends no request to the embedding service
\* or to the vector store.
C1_BlankQueryNoCalls ==
    (Buscando /\ SoEspacos(query)) =>
        /\ pc = "done"
        /\ outcome.kind = "return"
        /\ outcome.docs = <<>>
        /\ calls = <<>>

C1_Witness ==
    /\ Terminou("buscar")
    /\ Len(query) > 0
    /\ SoEspacos(query)

\* C2: the three fatal failures of a search have three different kinds:
\* embedding failure -> validation kind (ValueError), connect failure ->
\* connection kind (ConnectionError), and a failure of the vector-store
\* query -> a kind that is neither of those two.
C2_ThreeDistinctKinds ==
    (Terminou("buscar") /\ outcome.kind = "raise") =>
        /\ (query_embedding = <<>> => outcome.exc = "ValueError")
        /\ (resultados.kind = "unset" /\ query_embedding # <<>>
              => outcome.exc = "ConnectionError")
        /\ (resultados.kind = "raise"
              => outcome.exc \notin {"ValueError", "ConnectionError"})

\* C3: every record a search returns has a non-empty file name and a
\* non-empty text, and an empty raw-match list gives an empty result, not a
\* failure.
C3_ReturnedRecordsComplete ==
    Terminou("buscar") =>
        /\ \A i \in 1..Len(outcome.docs) :
              outcome.docs[i].arquivo # "" /\ outcome.docs[i].texto # ""
        /\ (resultados.kind = "matches" /\ resultados.matches = <<>>)
              => (outcome.kind = "return" /\ outcome.docs = <<>>)

C3_Witness ==
    /\ Terminou("buscar")
    /\ resultados.kind = "matches"
    /\ Len(outcome.docs) = 1
    /\ \E i \in 1..Len(resultados.matches) :
          /\ resultados.matches[i].meta_kind = "dict"
          /\ "arquivo" \in DOMAIN resultados.matches[i].metadata
          /\ "texto" \notin DOMAIN resultados.matches[i].metadata

\* C4: enrichment appends at most one suffix: the monetary one when the
\* lower-cased text holds a monetary term (also when a person name is there
\* too), else the person one when it holds a person name, else nothing; the
\* trimmed, truncated query is a prefix of the enriched text.
C4_OneSuffixMonetaryFirst ==
    pc = "b_embed" =>
        LET base == TruncarConsulta(query)
        IN  /\ query_processada = ComSufixo(base)
            /\ IsPrefix(base, query_processada)
            /\ Len(query_processada) - Len(base)
                 \in {0, Len(MONETARY_SUFFIX), Len(PERSON_SUFFIX)}

C4_Witness ==
    /\ pc = "b_embed"
    /\ query = <<"A", "n", "a", "v", "a", "l", "o", "r">>
    /\ query_processada = query \o MONETARY_SUFFIX

\* C5: when the trimmed query is longer than 1000 characters, the text sent
\* to the embedding service is the first 1000 characters of the trimmed
\* query followed by the suffix that those 1000 characters alone call for.
C5_TruncatedTo1000 ==
    (Len(query) > MAX_QUERY_LEN /\ Len(calls) = 1 /\ calls[1].svc = "embed") =>
        LET s == Strip(query)
        IN  Len(s) > MAX_QUERY_LEN =>
                calls[1].content = ComSufixo(SubSeq(s, 1, MAX_QUERY_LEN))

C5_Witness ==
    /\ Len(query) > MAX_QUERY_LEN
    /\ Len(calls) = 1
    /\ calls[1].svc = "embed"
    /\ SubSeq(query, Len(query) - 4, Len(query)) = <<"v", "a", "l", "o", "r">>
    /\ query[1] = "z"
    /\ Len(calls[1].content) = MAX_QUERY_LEN

Ids(ms) == [i \in 1..Len(ms) |-> ms[i].id]

\* a raw match with non-empty metadata, file name and text
Completo(m) ==
    /\ m.meta_kind = "dict"
    /\ "arquivo" \in DOMAIN m.metadata
    /\ "texto" \in DOMAIN m.metadata
    /\ m.metadata["arquivo"] # ""
    /\ m.metadata["texto"] # ""

\* a complete raw match whose score can be converted by float()
CompletoEConversivel(m) == Completo(m) /\ m.score_kind # "none"

\* C6 (as claimed): the result of a search is exactly the subsequence of the
\* raw matches that have non-empty metadata, a non-empty file name and a
\* non-empty text, in the order the vector store returned them.
C6_ExactlyCompleteMatches ==
    (Terminou("buscar") /\ resultados.kind = "matches") =>
        Ids(outcome.docs) = Ids(SelectSeq(resultados.matches, Completo))

\* C6 (amended): the result of a search is exactly the subsequence of the
\* raw matches that have non-empty metadata, a non-empty file name and a
\* non-empty text and whose processing does not fail (the score converts to
\* a number), in the order the vector store returned them, each with the
\* file name and text of its match.
C6_CompleteProcessableMatchesInOrder ==
    (Terminou("buscar") /\ resultados.kind = "matches") =>
        LET kept == SelectSeq(resultados.matches, CompletoEConversivel)
        IN  /\ outcome.kind = "return"
            /\ Ids(outcome.docs) = Ids(kept)
            /\ \A i \in 1..Len(kept) :
                  /\ outcome.docs[i].arquivo = kept[i].metadata["arquivo"]
                  /\ outcome.docs[i].texto = kept[i].metadata["texto"]

C6_Witness ==
    /\ Terminou("buscar")
    /\ resultados.kind = "matches"
    /\ Len(resultados.matches) >= 2
    /\ resultados.matches[1].score_kind = "none"
    /\ Completo(resultados.matches[1])
    /\ Len(outcome.docs) = 1
    /\ outcome.docs[1].id = resultados.matches[2].id

\* C7: a search ends by returning a sequence (populated or empty) or by
\* raising one of the named failure kinds, and those only for a failure of
\* the embedding, the connect or the query; any other failure inside the
\* call is turned into an empty-sequence return.
C7_OutcomesAndSwallowedFailures ==
    /\ (Buscando /\ pc # "done") => outcome.kind = "running"
    /\ Terminou("buscar") =>
        /\ outcome.kind \in {"return", "raise"}
        /\ outcome.kind = "raise" =>
              /\ outcome.exc \in {"ValueError", "ConnectionError"}
              /\ resultados.kind \in {"unset", "raise"}
              /\ outcome.docs = <<>>
        /\ resultados.kind = "not_iterable" =>
              (outcome.kind = "return" /\ outcome.docs = <<>>)

C7_Witness ==
    /\ Terminou("buscar")
    /\ resultados.kind = "not_iterable"
    /\ outcome.kind = "return"

ZeroVector(v) == Len(v) = EMBED_DIM /\ \A i \in 1..Len(v) : v[i] = 0

ConsultasFeitas == { i \in 1..Len(calls) : calls[i].svc = "query" }

\* C8: a listing queries the vector store with top_k = min(limit, 10000),
\* include_metadata = true and an all-zero vector of 768 components; having
\* queried, it returns the total reported by the statistics; when that total
\* is 0 it returns ([], 0) and issues no query.
C8_ListAllQueryShape ==
    Listando =>
        /\ \A i \in ConsultasFeitas :
              /\ calls[i].top_k =
                    (IF top_k <= API_TOP_K_MAX THEN top_k ELSE API_TOP_K_MAX)
              /\ calls[i].include_metadata
              /\ ZeroVector(calls[i].vector)
              /\ total > 0
        /\ (pc = "done" /\ ConsultasFeitas # {}) => outcome.total = total
        /\ (pc = "done" /\ ConsultasFeitas = {}) =>
              (outcome.docs = <<>> /\ outcome.total = 0)
        /\ (pc = "l_query") => total > 0

C8_Witness ==
    /\ Terminou("listar")
    /\ top_k = API_TOP_K_MAX + 1
    /\ ConsultasFeitas # {}
    /\ outcome.total = total
    /\ Len(outcome.docs) > 0

\* C9: no record a listing returns has an empty or missing file name or an
\* empty or missing text.
C9_ListAllRecordsComplete ==
    Terminou("listar") =>
        \A i \in 1..Len(outcome.docs) :
            outcome.docs[i].arquivo # "" /\ outcome.docs[i].texto # ""

\* C10: within one search the services are contacted in the order embedding
\* (purpose RETRIEVAL_QUERY), connect with its statistics request, query,
\* each at most once; nothing is sent to the vector store when the embedding
\* failed, and no query is issued when the connect failed.
C10_FixedCallOrder ==
    Buscando =>
        /\ IsPrefix(Servicos,
                    <<"embed", "connect", "describe_index_stats", "query">>)
        /\ \A i \in 1..Len(calls) :
              calls[i].svc = "embed" =>
                  (calls[i].task_type = "RETRIEVAL_QUERY"
                     /\ calls[i].content = query_processada)
        /\ Len(calls) > 1 => query_embedding # <<>>
        /\ outcome = ErroEmbedding => Len(calls) = 1
        /\ outcome = ErroConexao => Len(calls) \in 1..3
        /\ Len(calls) = 4 => pc = "done"

C10_Witness ==
    /\ Terminou("buscar")
    /\ Servicos = <<"embed", "connect", "describe_index_stats", "query">>
    /\ Len(outcome.docs) > 0

PerguntaEmBranco == SoEspacos(query)

\* C11: POST /ask answers a blank question with status 400, a failure raised
\* by the search with status 500, and a non-blank question for which the
\* search returns an empty sequence with status 404, which reaches the
\* client as 404.
C11_AskStatusCodes ==
    (pc = "a_done" /\ http.op = "ask") =>
        /\ PerguntaEmBranco => http.status_code = 400
        /\ (~PerguntaEmBranco /\ outcome.kind = "raise")
              => http.status_code = 500
        /\ (~PerguntaEmBranco /\ outcome.kind = "return"
              /\ outcome.docs = <<>>) => http.status_code = 404

=============================================================================
